---- MODULE Spec2Model ----
(***************************************************************************)
(* Profile credential store of the stripe CLI (package config, profile.go) *)
(* as a state machine.                                                     *)
(*                                                                         *)
(* State: the plaintext config file on disk, the process-wide viper        *)
(* instance (the config it last loaded, the values Set on it, its alias    *)
(* table), the secure keyring, and a record of the last operation with a   *)
(* snapshot of the state it started from.                                  *)
(*                                                                         *)
(* Keys are the dotted strings "<profile>.<field>" that GetConfigField     *)
(* builds.  All profile and field names of the model are lower case and    *)
(* free of dots, so viper's lower-casing of keys and its nesting of dotted *)
(* paths are the identity / a bijection on them and a viper map is         *)
(* modelled flat, as a function from the dotted key to its value.          *)
(***************************************************************************)
EXTENDS Integers, Sequences, FiniteSets, TLC

VARIABLES file, g, keyring, now, last, prev, pre

vars == <<file, g, keyring, now, last, prev, pre>>

\* ------------------------------------------------------------------ bounds

\* Operations per behaviour; each operation happens one day after the last.
MaxOps == 2

\* Earlier GetAPIKey(false) calls of the running process at the start.
MaxPriorReads == 2

\* ------------------------------------------------------- config key names

AccountIDName == "account_id"
DeviceNameName == "device_name"
DisplayNameName == "display_name"
IsTermsAcceptanceValidName == "is_terms_acceptance_valid"
TestModeAPIKeyName == "test_mode_api_key"
TestModePublishableKeyName == "test_mode_publishable_key"
TestModeExpiresAtName == "test_mode_key_expires_at"
LiveModeAPIKeyName == "live_mode_api_key"
LiveModePublishableKeyName == "live_mode_publishable_key"
LiveModeExpiresAtName == "live_mode_key_expires_at"

\* The legacy names the code reads and removes.
LegacyFields == {"secret_key", "api_key", "publishable_key"}

Fields ==
    { AccountIDName, DeviceNameName, DisplayNameName, TestModeAPIKeyName,
      TestModePublishableKeyName, TestModeExpiresAtName, LiveModeAPIKeyName,
      LiveModePublishableKeyName, LiveModeExpiresAtName } \cup LegacyFields

ProfileNames == {"p", "q"}

\* The validity window of a key, in days.
KeyValidInDays == 90

\* The color settings.
ColorAuto == "auto"
ColorOn == "on"
ColorOff == "off"

\* ---------------------------------------------------------------- strings

Char(s, i) == SubSeq(s, i, i)

RECURSIVE TrimLeft(_)
TrimLeft(s) ==
    IF Len(s) > 0 /\ Char(s, 1) = " " THEN TrimLeft(SubSeq(s, 2, Len(s))) ELSE s

RECURSIVE TrimRight(_)
TrimRight(s) ==
    IF Len(s) > 0 /\ Char(s, Len(s)) = " "
    THEN TrimRight(SubSeq(s, 1, Len(s) - 1))
    ELSE s

\* strings.TrimSpace
TrimSpace(s) == TrimRight(TrimLeft(s))

RECURSIVE Stars(_)
Stars(n) == IF n <= 0 THEN "" ELSE "*" \o Stars(n - 1)

\* RedactAPIKey: the first 8 and the last 4 characters stay, the rest is masked.
RedactAPIKey(apiKey) ==
    IF Len(apiKey) < 12
    THEN Stars(Len(apiKey))
    ELSE SubSeq(apiKey, 1, 8) \o Stars(Len(apiKey) - 12)
         \o SubSeq(apiKey, Len(apiKey) - 3, Len(apiKey))

\* The number of "_" in s.
RECURSIVE Underscores(_)
Underscores(s) ==
    IF Len(s) = 0 THEN 0
    ELSE (IF Char(s, 1) = "_" THEN 1 ELSE 0) + Underscores(SubSeq(s, 2, Len(s)))

\* validators.APIKey: the error it returns, "nil" for none.
ValidateAPIKey(input) ==
    IF Len(input) = 0 THEN "ErrAPIKeyNotConfigured"
    ELSE IF Len(input) < 12 THEN "InvalidAPIKey"
    ELSE IF Underscores(input) < 2 THEN "InvalidAPIKey"
    ELSE IF SubSeq(input, 1, 3) \notin {"sk_", "rk_"} THEN "InvalidAPIKey"
    ELSE "nil"

\* getKeyExpiresAt: today plus the validity window, formatted.
getKeyExpiresAt(today) == "day-" \o ToString(today + KeyValidInDays)

\* ------------------------------------------------------------------ viper

\* GetConfigField: the configuration field for the specific profile.
GetConfigField(p, field) == p.ProfileName \o "." \o field

\* A map from keys to values, as a function on the keys that hold a value.
NoValues == [k \in {} |-> ""]

Put(m, key, value) == [k \in DOMAIN m \cup {key} |-> IF k = key THEN value ELSE m[k]]

Without(m, key) == [k \in DOMAIN m \ {key} |-> m[k]]

\* viper.New(): nothing loaded, nothing set, no alias, no config file named.
NewViper == [config |-> NoValues, override |-> NoValues, aliases |-> NoValues,
             configFile |-> FALSE]

\* viper.realKey: follow the alias table to the key that holds the value.
RECURSIVE realKey(_, _)
realKey(aliases, key) ==
    IF key \in DOMAIN aliases THEN realKey(aliases, aliases[key]) ELSE key

\* viper.IsSet: a Set() override or a loaded value under the real key.
IsSet(v, key) ==
    realKey(v.aliases, key) \in DOMAIN v.override \cup DOMAIN v.config

\* viper.GetString (viper.find): a Set() override first, then the loaded
\* config; the empty string for a key that is not set.
GetString(v, key) ==
    IF realKey(v.aliases, key) \in DOMAIN v.override
    THEN v.override[realKey(v.aliases, key)]
    ELSE IF realKey(v.aliases, key) \in DOMAIN v.config
    THEN v.config[realKey(v.aliases, key)]
    ELSE ""

\* viper.Set: the value goes to the override map, under the real key.
Set(v, key, value) ==
    [v EXCEPT !.override = Put(@, realKey(v.aliases, key), value)]

\* viper.RegisterAlias: refuses an alias of itself or of its own target and
\* leaves an existing alias alone.  (Its move of a top-level config value to
\* the new key never applies to a dotted key.)
viperRegisterAlias(v, alias, key) ==
    IF alias # key /\ alias # realKey(v.aliases, key) /\ alias \notin DOMAIN v.aliases
    THEN [v EXCEPT !.aliases = Put(@, alias, key)]
    ELSE v

\* viper.AllKeys: the aliases, the keys Set and the keys loaded.
AllKeys(v) == DOMAIN v.aliases \cup DOMAIN v.override \cup DOMAIN v.config

\* viper.AllSettings: every key of AllKeys that Get finds a value for, with
\* that value.
AllSettings(v) == [k \in { x \in AllKeys(v) : IsSet(v, x) } |-> GetString(v, k)]

\* viper.ReadInConfig: the loaded config becomes the file's content.
ReadInConfig(v, disk) == [v EXCEPT !.config = disk]

\* viper.MergeInConfig: the file's values are merged over the loaded config;
\* an instance with no config file named finds none and merges nothing.
MergeInConfig(v, disk) ==
    IF v.configFile
    THEN [v EXCEPT !.config = [k \in DOMAIN @ \cup DOMAIN disk |->
                                  IF k \in DOMAIN disk THEN disk[k] ELSE @[k]]]
    ELSE v

\* removeKey: a new viper instance holding the settings of v without key.
removeKey(v, key) == [NewViper EXCEPT !.config = Without(AllSettings(v), key)]

\* ---------------------------------------------------------------- keyring

StoreCalls == {LiveModeAPIKeyName, LiveModeExpiresAtName, LiveModePublishableKeyName}

\* storeLivemodeValue: Store under the profile's field; a failure is dropped.
storeLivemodeValue(kr, p, field, value, storeFail) ==
    IF field \in storeFail THEN kr ELSE Put(kr, GetConfigField(p, field), value)

\* RetrieveLivemodeValue: the stored value, the empty string when there is none.
RetrieveLivemodeValue(kr, p, field) ==
    IF GetConfigField(p, field) \in DOMAIN kr THEN kr[GetConfigField(p, field)] ELSE ""

\* --------------------------------------------------------------- profiles

\* Profile: the in-memory value of one command invocation.
Profile(name) ==
    [ DeviceName |-> "", ProfileName |-> name, APIKey |-> "", LiveModeAPIKey |-> "",
      LiveModePublishableKey |-> "", TestModeAPIKey |-> "",
      TestModePublishableKey |-> "", TerminalPOSDeviceID |-> "", DisplayName |-> "",
      AccountID |-> "" ]

\* The in-memory profiles a write is called on.
WriteProfiles(name) ==
    { Profile(name),
      [Profile(name) EXCEPT !.DeviceName = " laptop "],
      [Profile(name) EXCEPT !.LiveModeAPIKey = " sk_live_0000000a "],
      [Profile(name) EXCEPT !.TestModeAPIKey = "sk_test_0000000a"],
      [Profile(name) EXCEPT !.DeviceName = "  ", !.TestModeAPIKey = " "],
      [Profile(name) EXCEPT !.DeviceName = "desk",
                            !.LiveModeAPIKey = "sk_live_0000000b",
                            !.LiveModePublishableKey = "pk_live_0000000b",
                            !.TestModeAPIKey = " sk_test_0000000b ",
                            !.TestModePublishableKey = "pk_test_0000000b",
                            !.DisplayName = "Acme",
                            !.AccountID = "acct_1"] }

\* The Store calls writeProfile issues for p.
IssuedStores(p) ==
    (IF p.LiveModeAPIKey # "" THEN {LiveModeAPIKeyName, LiveModeExpiresAtName} ELSE {})
    \cup (IF p.LiveModePublishableKey # "" THEN {LiveModePublishableKeyName} ELSE {})

\* The outcomes of the I/O an operation performs.
IO == [path : BOOLEAN, write : BOOLEAN, read : BOOLEAN, remove : BOOLEAN,
       storeFail : SUBSET StoreCalls]

AllOk == [path |-> TRUE, write |-> TRUE, read |-> TRUE, remove |-> TRUE, storeFail |-> {}]

\* ------------------------------------------------------------ write path

\* removeKey's error: the key is not there, or the settings cannot be re-encoded.
removeKeyErr(v, key, removeOk) ==
    IF ~IsSet(v, key) THEN "ErrKeyNotFound"
    ELSE IF ~removeOk THEN "ErrRemoveKey"
    ELSE "nil"

\* safeRemove: v without the profile's key when it is set and can be removed,
\* v itself otherwise.
safeRemove(v, p, key, removeOk) ==
    IF IsSet(v, GetConfigField(p, key))
    THEN IF removeKeyErr(v, GetConfigField(p, key), removeOk) = "nil"
         THEN removeKey(v, GetConfigField(p, key))
         ELSE v
    ELSE v

\* PlainLiveValue with the redaction forgotten.
PlainLiveValueRaw(key) == TrimSpace(key)

\* What writeProfile stores in the config for a live-mode key.
PlainLiveValue(key) == RedactAPIKey(TrimSpace(key))

\* What writeProfile stores in the keyring for a live-mode key.
SecureLiveValue(key) == TrimSpace(key)

\* What writeProfile stores in the config for any other attribute.
PlainValue(value) == TrimSpace(value)

\* writeProfile, lines 223-262: the Sets on the viper instance it was given.
writeSets(p, rv, today) ==
    LET v1 == IF p.DeviceName # ""
              THEN Set(rv, GetConfigField(p, DeviceNameName), PlainValue(p.DeviceName))
              ELSE rv
        v2 == IF p.LiveModeAPIKey # ""
              THEN Set(Set(v1, GetConfigField(p, LiveModeAPIKeyName),
                               PlainLiveValue(p.LiveModeAPIKey)),
                       GetConfigField(p, LiveModeExpiresAtName), getKeyExpiresAt(today))
              ELSE v1
        v3 == IF p.LiveModePublishableKey # ""
              THEN Set(v2, GetConfigField(p, LiveModePublishableKeyName),
                           PlainLiveValue(p.LiveModePublishableKey))
              ELSE v2
        v4 == IF p.TestModeAPIKey # ""
              THEN Set(Set(v3, GetConfigField(p, TestModeAPIKeyName),
                               PlainValue(p.TestModeAPIKey)),
                       GetConfigField(p, TestModeExpiresAtName), getKeyExpiresAt(today))
              ELSE v3
        v5 == IF p.TestModePublishableKey # ""
              THEN Set(v4, GetConfigField(p, TestModePublishableKeyName),
                           PlainValue(p.TestModePublishableKey))
              ELSE v4
        v6 == IF p.DisplayName # ""
              THEN Set(v5, GetConfigField(p, DisplayNameName), PlainValue(p.DisplayName))
              ELSE v5
    IN  IF p.AccountID # ""
        THEN Set(v6, GetConfigField(p, AccountIDName), PlainValue(p.AccountID))
        ELSE v6

\* writeProfile, lines 227-245: the Store calls on the keyring.
writeStores(p, kr, today, storeFail) ==
    LET k1 == IF p.LiveModeAPIKey # ""
              THEN storeLivemodeValue(
                       storeLivemodeValue(kr, p, LiveModeAPIKeyName,
                                          SecureLiveValue(p.LiveModeAPIKey), storeFail),
                       p, LiveModeExpiresAtName, getKeyExpiresAt(today), storeFail)
              ELSE kr
    IN  IF p.LiveModePublishableKey # ""
        THEN storeLivemodeValue(k1, p, LiveModePublishableKeyName,
                                SecureLiveValue(p.LiveModePublishableKey), storeFail)
        ELSE k1

\* writeCleanup with the removal of api_key forgotten.
writeCleanupSecretKeyOnly(p, v, removeOk) ==
    LET c1 == IF p.TestModeAPIKey # ""
              THEN safeRemove(v, p, "secret_key", removeOk)
              ELSE v
    IN  IF p.TestModePublishableKey # ""
        THEN safeRemove(c1, p, "publishable_key", removeOk)
        ELSE c1

\* writeProfile, lines 266-274: the legacy fields go once the old config is merged in.
writeCleanup(p, v, removeOk) ==
    LET c1 == IF p.TestModeAPIKey # ""
              THEN safeRemove(safeRemove(v, p, "secret_key", removeOk), p, "api_key", removeOk)
              ELSE v
    IN  IF p.TestModePublishableKey # ""
        THEN safeRemove(c1, p, "publishable_key", removeOk)
        ELSE c1

\* writeProfile: err, the file and the keyring it leaves, the instance it was
\* given as it leaves it (passed), and the number of Store calls it issued.
writeProfile(p, runtimeViper, disk, kr, today, io) ==
    IF ~io.path
    THEN [err |-> "ErrMakePath", file |-> disk, keyring |-> kr,
          passed |-> runtimeViper, stores |-> 0]
    ELSE LET merged == MergeInConfig(writeSets(p, runtimeViper, today), disk)
             final == writeCleanup(p, merged, io.remove)
         IN  [err |-> IF io.write THEN "nil" ELSE "ErrWriteConfig",
              file |-> IF io.write THEN AllSettings(final) ELSE disk,
              keyring |-> writeStores(p, kr, today, io.storeFail),
              passed |-> merged,
              stores |-> Cardinality(IssuedStores(p))]

\* ---------------------------------------------------------- the operations

\* The record of an operation: what it was called with, what the I/O did,
\* what it returned.
Op(op, p, field, livemode, env, io, ret, err, stores, retrieves) ==
    [op |-> op, p |-> p, field |-> field, livemode |-> livemode, env |-> env,
     io |-> io, ret |-> ret, err |-> err, stores |-> stores, retrieves |-> retrieves]

NoOp == Op("start", Profile("p"), "", FALSE, "", AllOk, "", "nil", 0, 0)

Snapshot == [file |-> file, g |-> g, keyring |-> keyring]

\* The outcomes of the I/O of a writeProfile on p (cleanup: whether a removal
\* can fail, which is asked only when one is attempted).
WriteIO(p, cleanup) ==
    { io \in IO : /\ io.read
                  /\ io.storeFail \subseteq IssuedStores(p)
                  /\ (~cleanup => io.remove)
                  /\ (~io.path => io.write /\ io.remove /\ io.storeFail = {}) }

\* Whether writeProfile on p, with the file merged into v, attempts a removal.
AttemptsRemoval(p, v, disk) ==
    LET m == MergeInConfig(writeSets(p, v, 0), disk)
    IN  \/ p.TestModeAPIKey # "" /\ \E f \in {"secret_key", "api_key"} :
                                       IsSet(m, GetConfigField(p, f))
        \/ p.TestModePublishableKey # "" /\ IsSet(m, GetConfigField(p, "publishable_key"))

\* CreateProfile: writeProfile on the process-wide viper instance.
CreateProfile(p, v, disk, kr, today, io) == writeProfile(p, v, disk, kr, today, io)

\* DeleteConfigField going on to writeProfile when removeKey failed.
DeleteConfigFieldAnyway(p, field, v, disk, kr, today, io) ==
    IF removeKeyErr(v, GetConfigField(p, field), io.remove) # "nil"
    THEN writeProfile(p, v, disk, kr, today, io)
    ELSE writeProfile(p, removeKey(v, GetConfigField(p, field)), disk, kr, today, io)

\* DeleteConfigField: writeProfile on the instance removeKey returns; the
\* process-wide instance v is left as it was.
DeleteConfigField(p, field, v, disk, kr, today, io) ==
    IF removeKeyErr(v, GetConfigField(p, field), io.remove) # "nil"
    THEN [err |-> removeKeyErr(v, GetConfigField(p, field), io.remove), file |-> disk,
          keyring |-> kr, passed |-> v, stores |-> 0]
    ELSE writeProfile(p, removeKey(v, GetConfigField(p, field)), disk, kr, today, io)

\* WriteConfigField: Set on the process-wide instance, then WriteConfig.
WriteConfigField(p, field, value, v, disk, writeOk) ==
    [err |-> IF writeOk THEN "nil" ELSE "ErrWriteConfig",
     file |-> IF writeOk THEN AllSettings(Set(v, GetConfigField(p, field), value)) ELSE disk,
     g |-> Set(v, GetConfigField(p, field), value)]

\* ------------------------------------------------------------- read path

\* RegisterAlias: an alias for a key, both in the profile's namespace.
RegisterAlias(v, p, alias, key) ==
    viperRegisterAlias(v, GetConfigField(p, alias), GetConfigField(p, key))

\* GetAPIKey, lines 127-133: the alias a test-mode read registers.
registerLegacyAlias(v, p) ==
    IF ~IsSet(v, GetConfigField(p, "api_key"))
    THEN RegisterAlias(v, p, "api_key", "secret_key")
    ELSE RegisterAlias(v, p, TestModeAPIKeyName, "api_key")

livemodeKeyField(livemode) == IF livemode THEN LiveModeAPIKeyName ELSE TestModeAPIKeyName

\* A key with the validator's verdict on it: the key and nil, or "" and the error.
Validated(key) ==
    IF ValidateAPIKey(key) # "nil"
    THEN [ret |-> "", err |-> ValidateAPIKey(key)]
    ELSE [ret |-> key, err |-> "nil"]

\* GetAPIKey with the in-memory key looked at before the environment's.
GetAPIKeyMemoryFirst(p, livemode, envKey, v, disk, kr, readOk) ==
    IF p.APIKey # ""
    THEN [ret |-> Validated(p.APIKey).ret, err |-> Validated(p.APIKey).err, g |-> v,
          retrieves |-> 0]
    ELSE IF envKey # ""
    THEN [ret |-> Validated(envKey).ret, err |-> Validated(envKey).err, g |-> v,
          retrieves |-> 0]
    ELSE LET aliased == IF ~livemode THEN registerLegacyAlias(v, p) ELSE v
             loaded == ReadInConfig(aliased, disk)
             key == IF ~livemode
                    THEN GetString(loaded, GetConfigField(p, livemodeKeyField(livemode)))
                    ELSE RetrieveLivemodeValue(kr, p, livemodeKeyField(livemode))
         IN  IF readOk
             THEN [ret |-> Validated(key).ret, err |-> Validated(key).err, g |-> loaded,
                   retrieves |-> IF livemode THEN 1 ELSE 0]
             ELSE [ret |-> "", err |-> "ErrAPIKeyNotConfigured", g |-> aliased,
                   retrieves |-> 0]

\* GetAPIKey with the key read from the config or the keyring returned as it is.
GetAPIKeyUnvalidated(p, livemode, envKey, v, disk, kr, readOk) ==
    IF envKey # ""
    THEN [ret |-> Validated(envKey).ret, err |-> Validated(envKey).err, g |-> v,
          retrieves |-> 0]
    ELSE IF p.APIKey # ""
    THEN [ret |-> Validated(p.APIKey).ret, err |-> Validated(p.APIKey).err, g |-> v,
          retrieves |-> 0]
    ELSE LET aliased == IF ~livemode THEN registerLegacyAlias(v, p) ELSE v
             loaded == ReadInConfig(aliased, disk)
             key == IF ~livemode
                    THEN GetString(loaded, GetConfigField(p, livemodeKeyField(livemode)))
                    ELSE RetrieveLivemodeValue(kr, p, livemodeKeyField(livemode))
         IN  IF readOk
             THEN [ret |-> key, err |-> "nil", g |-> loaded,
                   retrieves |-> IF livemode THEN 1 ELSE 0]
             ELSE [ret |-> "", err |-> "ErrAPIKeyNotConfigured", g |-> aliased,
                   retrieves |-> 0]

\* GetAPIKey going on to the next source when the environment's key or the
\* in-memory key is invalid.
GetAPIKeyFallsBack(p, livemode, envKey, v, disk, kr, readOk) ==
    IF envKey # "" /\ ValidateAPIKey(envKey) = "nil"
    THEN [ret |-> envKey, err |-> "nil", g |-> v, retrieves |-> 0]
    ELSE IF p.APIKey # "" /\ ValidateAPIKey(p.APIKey) = "nil"
    THEN [ret |-> p.APIKey, err |-> "nil", g |-> v, retrieves |-> 0]
    ELSE LET aliased == IF ~livemode THEN registerLegacyAlias(v, p) ELSE v
             loaded == ReadInConfig(aliased, disk)
             key == IF ~livemode
                    THEN GetString(loaded, GetConfigField(p, livemodeKeyField(livemode)))
                    ELSE RetrieveLivemodeValue(kr, p, livemodeKeyField(livemode))
         IN  IF readOk
             THEN [ret |-> Validated(key).ret, err |-> Validated(key).err, g |-> loaded,
                   retrieves |-> IF livemode THEN 1 ELSE 0]
             ELSE [ret |-> "", err |-> "ErrAPIKeyNotConfigured", g |-> aliased,
                   retrieves |-> 0]

\* GetAPIKey with the live-mode key read from the config like the test-mode key.
GetAPIKeyFromConfig(p, livemode, envKey, v, disk, kr, readOk) ==
    IF envKey # ""
    THEN [ret |-> Validated(envKey).ret, err |-> Validated(envKey).err, g |-> v,
          retrieves |-> 0]
    ELSE IF p.APIKey # ""
    THEN [ret |-> Validated(p.APIKey).ret, err |-> Validated(p.APIKey).err, g |-> v,
          retrieves |-> 0]
    ELSE LET aliased == IF ~livemode THEN registerLegacyAlias(v, p) ELSE v
             loaded == ReadInConfig(aliased, disk)
             key == GetString(loaded, GetConfigField(p, livemodeKeyField(livemode)))
         IN  IF readOk
             THEN [ret |-> Validated(key).ret, err |-> Validated(key).err, g |-> loaded,
                   retrieves |-> IF livemode THEN 1 ELSE 0]
             ELSE [ret |-> "", err |-> "ErrAPIKeyNotConfigured", g |-> aliased,
                   retrieves |-> 0]

\* GetAPIKey: the key and the error it returns, the viper instance as it
\* leaves it, and the number of Retrieve calls on the keyring.
GetAPIKey(p, livemode, envKey, v, disk, kr, readOk) ==
    IF envKey # ""
    THEN [ret |-> Validated(envKey).ret, err |-> Validated(envKey).err, g |-> v,
          retrieves |-> 0]
    ELSE IF p.APIKey # ""
    THEN [ret |-> Validated(p.APIKey).ret, err |-> Validated(p.APIKey).err, g |-> v,
          retrieves |-> 0]
    ELSE LET aliased == IF ~livemode THEN registerLegacyAlias(v, p) ELSE v
             loaded == ReadInConfig(aliased, disk)
             key == IF ~livemode
                    THEN GetString(loaded, GetConfigField(p, livemodeKeyField(livemode)))
                    ELSE RetrieveLivemodeValue(kr, p, livemodeKeyField(livemode))
         IN  IF readOk
             THEN [ret |-> Validated(key).ret, err |-> Validated(key).err, g |-> loaded,
                   retrieves |-> IF livemode THEN 1 ELSE 0]
             ELSE [ret |-> "", err |-> "ErrAPIKeyNotConfigured", g |-> aliased,
                   retrieves |-> 0]

\* GetColor: the global setting as it is, else the profile's, else auto.
GetColor(p, v) ==
    IF GetString(v, "color") # ""
    THEN [ret |-> GetString(v, "color"), err |-> "nil"]
    ELSE IF GetString(v, GetConfigField(p, "color")) \in {"", ColorAuto}
    THEN [ret |-> ColorAuto, err |-> "nil"]
    ELSE IF GetString(v, GetConfigField(p, "color")) = ColorOn
    THEN [ret |-> ColorOn, err |-> "nil"]
    ELSE IF GetString(v, GetConfigField(p, "color")) = ColorOff
    THEN [ret |-> ColorOff, err |-> "nil"]
    ELSE [ret |-> "", err |-> "ErrColorNotSupported"]

\* GetDeviceName: the configured device name.
GetDeviceName(p, envName, v, disk, readOk) ==
    IF envName # "" THEN [ret |-> envName, err |-> "nil", g |-> v]
    ELSE IF p.DeviceName # "" THEN [ret |-> p.DeviceName, err |-> "nil", g |-> v]
    ELSE IF readOk
    THEN [ret |-> GetString(ReadInConfig(v, disk), GetConfigField(p, DeviceNameName)),
          err |-> "nil", g |-> ReadInConfig(v, disk)]
    ELSE [ret |-> "", err |-> "ErrDeviceNameNotConfigured", g |-> v]

\* GetAccountID: the account id of the profile.
GetAccountID(p, v, disk, readOk) ==
    IF p.AccountID # "" THEN [ret |-> p.AccountID, err |-> "nil", g |-> v]
    ELSE IF readOk
    THEN [ret |-> GetString(ReadInConfig(v, disk), GetConfigField(p, AccountIDName)),
          err |-> "nil", g |-> ReadInConfig(v, disk)]
    ELSE [ret |-> "", err |-> "ErrAccountIDNotConfigured", g |-> v]

\* ---------------------------------------------------------------- inputs

\* <<STRIPE_API_KEY, in-memory APIKey>> of a GetAPIKey call.
KeyInputs ==
    { <<"", "">>, <<"sk_test_env00001", "">>, <<"sk_test_env00001", "sk_test_mem00001">>,
      <<"env", "sk_test_mem00001">>, <<"", "sk_test_mem00001">>,
      <<"", "pk_test_mem00001">> }

\* <<STRIPE_DEVICE_NAME, in-memory DeviceName>> of a GetDeviceName call.
DeviceInputs == { <<"", "">>, <<"", "laptop">>, <<"ci-box", "laptop">> }

\* In-memory AccountID of a GetAccountID call.
AccountInputs == { "", "acct_1" }

\* The fields DeleteConfigField is called on.
DeleteFields == { "secret_key", DeviceNameName, LiveModeAPIKeyName }

\* The in-memory profiles DeleteConfigField is called on.
DeleteProfiles(name) ==
    { Profile(name),
      [Profile(name) EXCEPT !.DeviceName = " laptop "],
      [Profile(name) EXCEPT !.LiveModeAPIKey = " sk_live_0000000a "] }

\* <<field, value>> of a WriteConfigField call.
WriteFieldInputs == { <<"color", "off">>, <<"color", "purple">>, <<DeviceNameName, "w-box">> }

ReadIO(reads) == { io \in IO : /\ io.path /\ io.write /\ io.remove /\ io.storeFail = {}
                               /\ (~reads => io.read) }

\* The outcomes of the I/O of DeleteConfigField on p (isSet: whether the
\* field is there, without which nothing is written).
DeleteIO(p, isSet) ==
    { io \in IO : /\ io.read
                  /\ io.storeFail \subseteq IssuedStores(p)
                  /\ (~isSet => io.remove /\ io.path /\ io.write /\ io.storeFail = {})
                  /\ (~io.remove \/ ~io.path => io.write /\ io.storeFail = {})
                  /\ (~io.remove => io.path) }

\* --------------------------------------------------------------- actions

Step(op) ==
    /\ now' = now + 1
    /\ last' = op
    /\ prev' = last
    /\ pre' = Snapshot

CallCreateProfile ==
    /\ now < MaxOps
    /\ \E name \in ProfileNames : \E p \in WriteProfiles(name) :
        \E cleanup \in {AttemptsRemoval(p, g, file)} : \E io \in WriteIO(p, cleanup) :
        \E w \in {CreateProfile(p, g, file, keyring, now, io)} :
                /\ file' = w.file
                /\ keyring' = w.keyring
                /\ g' = w.passed
                /\ Step(Op("CreateProfile", p, "", FALSE, "", io, "", w.err, w.stores, 0))

CallDeleteConfigField ==
    /\ now < MaxOps
    /\ \E name \in ProfileNames : \E p \in DeleteProfiles(name) : \E field \in DeleteFields :
        \E isSet \in {IsSet(g, GetConfigField(p, field))} : \E io \in DeleteIO(p, isSet) :
        \E w \in {DeleteConfigField(p, field, g, file, keyring, now, io)} :
                /\ file' = w.file
                /\ keyring' = w.keyring
                /\ g' = g
                /\ Step(Op("DeleteConfigField", p, field, FALSE, "", io, "", w.err, w.stores, 0))

CallGetAPIKey ==
    /\ now < MaxOps
    /\ \E name \in ProfileNames : \E in \in KeyInputs : \E livemode \in BOOLEAN :
        \E io \in ReadIO(in = <<"", "">>) :
        \E p \in {[Profile(name) EXCEPT !.APIKey = in[2]]} :
        \E r \in {GetAPIKey(p, livemode, in[1], g, file, keyring, io.read)} :
                /\ g' = r.g
                /\ Step(Op("GetAPIKey", p, "", livemode, in[1], io, r.ret, r.err, 0, r.retrieves))
                /\ UNCHANGED <<file, keyring>>

CallGetDeviceName ==
    /\ now < MaxOps
    /\ \E name \in ProfileNames : \E in \in DeviceInputs : \E io \in ReadIO(in = <<"", "">>) :
            LET p == [Profile(name) EXCEPT !.DeviceName = in[2]]
                r == GetDeviceName(p, in[1], g, file, io.read)
            IN  /\ g' = r.g
                /\ Step(Op("GetDeviceName", p, "", FALSE, in[1], io, r.ret, r.err, 0, 0))
                /\ UNCHANGED <<file, keyring>>

CallGetAccountID ==
    /\ now < MaxOps
    /\ \E name \in ProfileNames : \E in \in AccountInputs : \E io \in ReadIO(in = "") :
            LET p == [Profile(name) EXCEPT !.AccountID = in]
                r == GetAccountID(p, g, file, io.read)
            IN  /\ g' = r.g
                /\ Step(Op("GetAccountID", p, "", FALSE, "", io, r.ret, r.err, 0, 0))
                /\ UNCHANGED <<file, keyring>>

CallWriteConfigField ==
    /\ now < MaxOps
    /\ \E name \in ProfileNames : \E in \in WriteFieldInputs : \E writeOk \in BOOLEAN :
        \E w \in {WriteConfigField(Profile(name), in[1], in[2], g, file, writeOk)} :
                /\ file' = w.file
                /\ g' = w.g
                /\ Step(Op("WriteConfigField", Profile(name), in[1], FALSE, "",
                           [AllOk EXCEPT !.write = writeOk], "", w.err, 0, 0))
                /\ UNCHANGED keyring

CallGetColor ==
    /\ now < MaxOps
    /\ \E name \in ProfileNames : \E r \in {GetColor(Profile(name), g)} :
                /\ Step(Op("GetColor", Profile(name), "", FALSE, "", AllOk, r.ret, r.err, 0, 0))
                /\ UNCHANGED <<file, g, keyring>>

\* A new command invocation: a fresh process loads the config file.
Restart ==
    /\ now < MaxOps
    /\ g' = ReadInConfig([NewViper EXCEPT !.configFile = TRUE], file)
    /\ Step(Op("Restart", Profile("p"), "", FALSE, "", AllOk, "", "nil", 0, 0))
    /\ UNCHANGED <<file, keyring>>

\* ------------------------------------------------------------------ Init

\* The config file with the given values.
FileOf(values) == [k \in DOMAIN values |-> values[k]]

\* Config files earlier versions and earlier logins left: none, the two
\* legacy layouts (one with a global color setting), a legacy key beside the
\* canonical one, and a current one with per-profile color settings.
InitFiles ==
    { NoValues,
      FileOf("p.secret_key" :> "sk_test_legacy01" @@ "q.account_id" :> "acct_q"),
      FileOf("p.api_key" :> "sk_test_legacy02" @@ "q.account_id" :> "acct_q"
             @@ "color" :> "always" @@ "p.color" :> "on"),
      FileOf("p.test_mode_api_key" :> "sk_test_stored01" @@ "p.api_key" :> "sk_test_legacy02"
             @@ "q.device_name" :> "q-box"),
      FileOf("p.test_mode_api_key" :> "sk_test_stored01" @@ "p.device_name" :> "p-box"
             @@ "q.test_mode_api_key" :> "sk_test_stored02" @@ "q.device_name" :> "q-box"
             @@ "p.color" :> "on" @@ "q.color" :> "blue") }

\* The process-wide instance after n test-mode GetAPIKey calls on profile name.
RECURSIVE PriorReads(_, _, _)
PriorReads(v, name, n) ==
    IF n = 0 THEN v ELSE PriorReads(registerLegacyAlias(v, Profile(name)), name, n - 1)

\* A running process: it loaded the config file at its start and has since
\* resolved the test-mode key of profile p up to MaxPriorReads times.
Init ==
    /\ file \in InitFiles
    /\ g \in { PriorReads(ReadInConfig([NewViper EXCEPT !.configFile = TRUE], file), "p", n) :
                 n \in 0..MaxPriorReads }
    /\ keyring = NoValues
    /\ now = 0
    /\ last = NoOp
    /\ prev = NoOp
    /\ pre = Snapshot

Next ==
    \/ CallCreateProfile
    \/ CallDeleteConfigField
    \/ CallGetAPIKey
    \/ CallGetDeviceName
    \/ CallGetAccountID
    \/ CallWriteConfigField
    \/ CallGetColor
    \/ Restart

Spec == Init /\ [][Next]_vars

\* Only the operations that write: CreateProfile and DeleteConfigField, in
\* any number of command invocations.
NextWrites ==
    \/ CallCreateProfile
    \/ CallDeleteConfigField
    \/ Restart

SpecWrites == Init /\ [][NextWrites]_vars

\* ================================================================ claims

Key(name, field) == GetConfigField(Profile(name), field)

\* The key of the last operation's profile for a field.
LastKey(field) == GetConfigField(last.p, field)

AllWriteProfiles == UNION { WriteProfiles(n) \cup DeleteProfiles(n) : n \in ProfileNames }

\* The raw live-mode keys the operations are called with.
RawLiveInputs ==
    { p.LiveModeAPIKey : p \in AllWriteProfiles }
    \cup { p.LiveModePublishableKey : p \in AllWriteProfiles }

IsWrite == last.op \in {"CreateProfile", "DeleteConfigField"}

\* C1: after any sequence of CreateProfile and DeleteConfigField calls the
\* config file holds no raw live-mode API key or publishable key: what it
\* holds under live_mode_api_key / live_mode_publishable_key is the redacted
\* form of a trimmed key, and a write that succeeded left there the redacted
\* form of the key it was called with.
C1_PlaintextHoldsRedacted ==
    /\ \A n \in ProfileNames : \A f \in {LiveModeAPIKeyName, LiveModePublishableKeyName} :
          Key(n, f) \in DOMAIN file =>
             /\ \E raw \in RawLiveInputs : file[Key(n, f)] = RedactAPIKey(TrimSpace(raw))
             /\ \A raw \in RawLiveInputs : file[Key(n, f)] \notin {raw, TrimSpace(raw)}
    /\ IsWrite /\ last.err = "nil" /\ last.p.LiveModeAPIKey # ""
          => /\ LastKey(LiveModeAPIKeyName) \in DOMAIN file
             /\ file[LastKey(LiveModeAPIKeyName)]
                   = RedactAPIKey(TrimSpace(last.p.LiveModeAPIKey))
    /\ IsWrite /\ last.err = "nil" /\ last.p.LiveModePublishableKey # ""
          => /\ LastKey(LiveModePublishableKeyName) \in DOMAIN file
             /\ file[LastKey(LiveModePublishableKeyName)]
                   = RedactAPIKey(TrimSpace(last.p.LiveModePublishableKey))

\* C1 witness: a CreateProfile with a padded live-mode key succeeded and the
\* file holds the key's redacted form.
C1_Witness ==
    /\ last.op = "CreateProfile" /\ last.err = "nil"
    /\ last.p.LiveModeAPIKey = " sk_live_0000000a "
    /\ LastKey(LiveModeAPIKeyName) \in DOMAIN file
    /\ file[LastKey(LiveModeAPIKeyName)] = "sk_live_****000a"

\* C2: whenever CreateProfile has written a (redacted) live_mode_api_key to
\* the config file, the keyring holds exactly the trimmed raw key, whatever
\* the outcome of the Store calls.
C2_SecureHoldsRaw ==
    last.op = "CreateProfile" /\ last.err = "nil" /\ last.p.LiveModeAPIKey # ""
       => /\ LastKey(LiveModeAPIKeyName) \in DOMAIN file
          /\ LastKey(LiveModeAPIKeyName) \in DOMAIN keyring
          /\ keyring[LastKey(LiveModeAPIKeyName)] = TrimSpace(last.p.LiveModeAPIKey)

\* A GetAPIKey call that got past the environment and the in-memory key and
\* could read the config file.
ReadsPersisted ==
    /\ last.op = "GetAPIKey" /\ last.env = "" /\ last.p.APIKey = "" /\ last.io.read

\* The process had loaded the file and touched nothing since (no alias, no Set).
FreshBefore ==
    /\ pre.g.aliases = NoValues /\ pre.g.override = NoValues /\ pre.g.config = pre.file

\* C3: with only the legacy secret_key = k persisted for the profile (k
\* valid), the first GetAPIKey(false) returns k without error and leaves an
\* alias under which a read of test_mode_api_key returns k too.
C3_LegacyMigration ==
    /\ ReadsPersisted /\ ~last.livemode /\ FreshBefore
    /\ LastKey("secret_key") \in DOMAIN pre.file
    /\ LastKey("api_key") \notin DOMAIN pre.file
    /\ LastKey(TestModeAPIKeyName) \notin DOMAIN pre.file
    /\ file = pre.file
    => /\ ValidateAPIKey(pre.file[LastKey("secret_key")]) = "nil"
          => /\ last.err = "nil"
             /\ last.ret = pre.file[LastKey("secret_key")]
             /\ GetString(g, LastKey(TestModeAPIKeyName)) = pre.file[LastKey("secret_key")]

\* What GetAPIKey returns for a candidate: the candidate if the validator
\* accepts it, the empty key and the validator's error if not.
Returned(candidate) ==
    IF ValidateAPIKey(candidate) = "nil"
    THEN last.ret = candidate /\ last.err = "nil"
    ELSE last.ret = "" /\ last.err = ValidateAPIKey(candidate)

\* C4: GetAPIKey, in both modes: a non-empty STRIPE_API_KEY alone decides the
\* result; failing that a non-empty in-memory APIKey alone decides it; only
\* then are the config (no alias registered, no file read before) and the
\* keyring (no Retrieve before) consulted.
C4_Precedence ==
    last.op = "GetAPIKey" =>
       /\ last.env # "" => Returned(last.env) /\ g = pre.g /\ last.retrieves = 0
       /\ last.env = "" /\ last.p.APIKey # ""
             => Returned(last.p.APIKey) /\ g = pre.g /\ last.retrieves = 0
       /\ last.retrieves > 0 \/ g # pre.g => last.env = "" /\ last.p.APIKey = ""

\* C4 witness: STRIPE_API_KEY is set and valid, another test-mode key is
\* persisted, and GetAPIKey(false) returned the environment's key.
C4_Witness ==
    /\ last.op = "GetAPIKey" /\ ~last.livemode
    /\ last.env = "sk_test_env00001" /\ last.ret = "sk_test_env00001" /\ last.err = "nil"
    /\ LastKey(TestModeAPIKeyName) \in DOMAIN file
    /\ file[LastKey(TestModeAPIKeyName)] = "sk_test_stored01"

\* A profile that carries a test-mode API key and nothing else.
OnlyTestKey(p) ==
    /\ p.TestModeAPIKey # "" /\ p.LiveModeAPIKey = "" /\ p.LiveModePublishableKey = ""
    /\ p.TestModePublishableKey = "" /\ p.DeviceName = "" /\ p.DisplayName = ""
    /\ p.AccountID = ""

\* C5: after a successful CreateProfile with TestModeAPIKey = k (valid, no
\* surrounding space), GetAPIKey(false) on that profile with no environment
\* key and no in-memory key returns k, and neither call issues a Store or a
\* Retrieve, whatever aliases earlier reads registered.  (Stated for a
\* CreateProfile all of whose I/O succeeded and a GetAPIKey that could read
\* the file.)
C5_TestModeRoundTrip ==
    /\ prev.op = "CreateProfile" /\ prev.err = "nil" /\ OnlyTestKey(prev.p)
    /\ prev.io = AllOk
    /\ TrimSpace(prev.p.TestModeAPIKey) = prev.p.TestModeAPIKey
    /\ ValidateAPIKey(prev.p.TestModeAPIKey) = "nil"
    /\ ReadsPersisted /\ ~last.livemode /\ last.p.ProfileName = prev.p.ProfileName
    => /\ last.ret = prev.p.TestModeAPIKey /\ last.err = "nil"
       /\ prev.stores = 0 /\ prev.retrieves = 0
       /\ last.stores = 0 /\ last.retrieves = 0

\* C6: a DeleteConfigField(f) that succeeds leaves the config file as it was
\* but for the profile's field f, whatever attributes the in-memory profile
\* carries.
C6_DeleteRemovesExactlyOne ==
    last.op = "DeleteConfigField" /\ last.err = "nil"
       => file = Without(pre.file, LastKey(last.field))

\* C7: DeleteConfigField leaves the keyring as it was and issues no Store,
\* whatever the in-memory profile carries.
C7_DeleteLeavesKeyring ==
    last.op = "DeleteConfigField" => keyring = pre.keyring /\ last.stores = 0

\* C8: GetDeviceName fails with ErrDeviceNameNotConfigured when
\* STRIPE_DEVICE_NAME and the in-memory DeviceName are empty and no
\* device_name is persisted or Set; GetAccountID fails with
\* ErrAccountIDNotConfigured when the in-memory AccountID is empty and no
\* account_id is persisted or Set; neither returns "" with a nil error.
C8_NotConfigured ==
    /\ last.op = "GetDeviceName" /\ last.env = "" /\ last.p.DeviceName = ""
       /\ LastKey(DeviceNameName) \notin DOMAIN file \cup DOMAIN g.override
          => last.err = "ErrDeviceNameNotConfigured"
    /\ last.op = "GetAccountID" /\ last.p.AccountID = ""
       /\ LastKey(AccountIDName) \notin DOMAIN file \cup DOMAIN g.override
          => last.err = "ErrAccountIDNotConfigured"
    /\ last.op \in {"GetDeviceName", "GetAccountID"} /\ last.err = "nil" => last.ret # ""

\* No candidate for GetAPIKey in the persisted state: in test mode neither
\* test_mode_api_key nor a legacy field in the config file, in live mode no
\* live_mode_api_key in the keyring.
NothingPersisted ==
    IF last.livemode
    THEN LastKey(LiveModeAPIKeyName) \notin DOMAIN keyring
    ELSE \A f \in {TestModeAPIKeyName, "secret_key", "api_key"} :
            LastKey(f) \notin DOMAIN file

\* No value Set on the process-wide viper instance for those fields (a
\* CreateProfile whose final write failed leaves its Sets there).
NothingSet ==
    \A f \in {TestModeAPIKeyName, "secret_key", "api_key"} :
       LastKey(f) \notin DOMAIN g.override

Candidate ==
    IF last.env # "" THEN last.env
    ELSE IF last.p.APIKey # "" THEN last.p.APIKey
    ELSE IF last.livemode THEN RetrieveLivemodeValue(keyring, last.p, LiveModeAPIKeyName)
    ELSE GetString(g, LastKey(TestModeAPIKeyName))

\* C10: a key GetAPIKey returns has passed the validator, whichever source
\* supplied it; when the selected candidate is invalid GetAPIKey returns the
\* empty key and the validator's error, not a valid key of a lower source.
C10_Validated ==
    last.op = "GetAPIKey" =>
       /\ last.err = "nil" => ValidateAPIKey(last.ret) = "nil"
       /\ last.err # "nil" => last.ret = ""
       /\ (last.env # "" \/ last.p.APIKey # "" \/ last.io.read)
          /\ ValidateAPIKey(Candidate) # "nil"
             => last.ret = "" /\ last.err = ValidateAPIKey(Candidate)

\* C10 witness: STRIPE_API_KEY is invalid, the in-memory APIKey is valid, and
\* GetAPIKey failed with the validator's error.
C10_Witness ==
    /\ last.op = "GetAPIKey" /\ last.env = "env" /\ last.p.APIKey = "sk_test_mem00001"
    /\ last.ret = "" /\ last.err = "InvalidAPIKey"

\* C11: a GetColor that returns without error returns auto, on or off,
\* whether the value came from the global setting or from the profile's.
C11_ColorSupported ==
    last.op = "GetColor" /\ last.err = "nil" => last.ret \in {ColorAuto, ColorOn, ColorOff}

\* A CreateProfile that carried a test-mode API key.
WroteTestKey == last.op = "CreateProfile" /\ last.p.TestModeAPIKey # ""

\* The canonical test-mode key of the last operation's profile is in the
\* file, with the trimmed key as its value.
CanonicalPersisted ==
    /\ LastKey(TestModeAPIKeyName) \in DOMAIN file
    /\ file[LastKey(TestModeAPIKeyName)] = TrimSpace(last.p.TestModeAPIKey)

\* An alias among secret_key, api_key and test_mode_api_key of the last
\* operation's profile was registered before the operation.
AliasedBefore == LastKey("api_key") \in DOMAIN pre.g.aliases

\* C12 as stated: after a successful CreateProfile with a test-mode API key
\* the file holds test_mode_api_key = the trimmed key and neither secret_key
\* nor api_key of the profile, and a removal that fails makes CreateProfile
\* neither fail nor lose the canonical field; for every prior state.
C12_Cleanup ==
    WroteTestKey =>
       /\ last.err = "nil" => /\ CanonicalPersisted
                              /\ LastKey("secret_key") \notin DOMAIN file
                              /\ LastKey("api_key") \notin DOMAIN file
       /\ last.err # "nil" => ~last.io.path \/ ~last.io.write

\* C12 amended: the legacy fields are gone when their removal succeeded.
C12_CleanupWhenRemoved ==
    WroteTestKey =>
       /\ last.err = "nil" => CanonicalPersisted
       /\ last.err = "nil" /\ last.io.remove
             => /\ LastKey("secret_key") \notin DOMAIN file
                /\ LastKey("api_key") \notin DOMAIN file
       /\ last.err # "nil" => ~last.io.path \/ ~last.io.write

\* C12 witness: two earlier reads had chained test_mode_api_key to api_key to
\* secret_key; CreateProfile wrote a test-mode key, removed the legacy
\* secret_key that was in the file, and left the canonical field.
C12_Witness ==
    /\ WroteTestKey /\ last.err = "nil" /\ last.io.remove
    /\ LastKey("secret_key") \in DOMAIN pre.file
    /\ LastKey(TestModeAPIKeyName) \in DOMAIN pre.g.aliases
    /\ AliasedBefore
    /\ CanonicalPersisted
    /\ LastKey("secret_key") \notin DOMAIN file

\* C12 witness of the second half: a removal failed, CreateProfile
\* succeeded, the legacy field stayed and the canonical field is there.
C12_WitnessRemovalFailed ==
    /\ WroteTestKey /\ last.err = "nil" /\ ~last.io.remove
    /\ CanonicalPersisted
    /\ \E f \in {"secret_key", "api_key"} : LastKey(f) \in DOMAIN file

\* C13: a CreateProfile during which a Store on the keyring failed returns
\* an error.
C13_StoreFailureFatal ==
    last.op = "CreateProfile" /\ last.io.storeFail # {} => last.err # "nil"

\* A key of the namespace of profile name: "<name>.<field>".
OwnedBy(key, name) ==
    Len(key) > Len(name) /\ SubSeq(key, 1, Len(name) + 1) = name \o "."

\* The part of a map that lies in the namespace of profile name.
Restrict(m, name) == [k \in { x \in DOMAIN m : OwnedBy(x, name) } |-> m[k]]

\* C14: an operation on profile P (CreateProfile, DeleteConfigField,
\* WriteConfigField, a GetAPIKey that may register an alias) leaves the
\* persisted fields and the aliases of every other profile as they were.
C14_NoCrossProfile ==
    last.op \in {"CreateProfile", "DeleteConfigField", "WriteConfigField", "GetAPIKey"}
       => \A n \in ProfileNames \ {last.p.ProfileName} :
             /\ Restrict(file, n) = Restrict(pre.file, n)
             /\ Restrict(g.aliases, n) = Restrict(pre.g.aliases, n)

\* The expiry a write of the last operation's day computes.
LastExpiresAt == getKeyExpiresAt(now - 1)

\* The keyring holds the last operation's live-mode key / expiry.
KeyStored ==
    /\ LastKey(LiveModeAPIKeyName) \in DOMAIN keyring
    /\ keyring[LastKey(LiveModeAPIKeyName)] = TrimSpace(last.p.LiveModeAPIKey)

ExpiryStored ==
    /\ LastKey(LiveModeExpiresAtName) \in DOMAIN keyring
    /\ keyring[LastKey(LiveModeExpiresAtName)] = LastExpiresAt

\* C15: a file CreateProfile persisted with a live-mode key of that call
\* holds the expiry of that call too; and CreateProfile leaves the keyring
\* with the new raw key and its expiry both, or with neither.
C15_ExpiryWithKey ==
    last.op = "CreateProfile" /\ last.p.LiveModeAPIKey # "" /\ last.io.path
       => /\ last.err = "nil"
                => /\ LastKey(LiveModeAPIKeyName) \in DOMAIN file
                   /\ file[LastKey(LiveModeAPIKeyName)]
                         = RedactAPIKey(TrimSpace(last.p.LiveModeAPIKey))
                   /\ LastKey(LiveModeExpiresAtName) \in DOMAIN file
                   /\ file[LastKey(LiveModeExpiresAtName)] = LastExpiresAt
          /\ KeyStored <=> ExpiryStored

\* DeleteConfigField was called on a field that is not set: removeKey fails
\* and writeProfile is not reached.
DeleteOfUnset ==
    last.op = "DeleteConfigField" /\ ~IsSet(pre.g, LastKey(last.field))

Persisted == <<file, keyring>>

PersistedBefore == <<pre.file, pre.keyring>>

\* C16 as stated: only CreateProfile and DeleteConfigField (through
\* writeProfile) change the config file or the keyring; the readers and
\* WriteConfigField change neither.
C16_OnlyWriteProfileMutates ==
    /\ last.op \notin {"CreateProfile", "DeleteConfigField"} => Persisted = PersistedBefore
    /\ DeleteOfUnset => Persisted = PersistedBefore /\ last.stores = 0

\* C16 amended: WriteConfigField writes the config file too (and leaves the
\* keyring alone).
C16_WriteProfileAndWriteConfigField ==
    /\ last.op \notin {"CreateProfile", "DeleteConfigField", "WriteConfigField"}
          => Persisted = PersistedBefore
    /\ last.op = "WriteConfigField" => keyring = pre.keyring
    /\ last.op = "WriteConfigField" /\ last.err # "nil" => file = pre.file
    /\ DeleteOfUnset => Persisted = PersistedBefore /\ last.stores = 0

\* C16 witness: a WriteConfigField changed the config file.
C16_Witness ==
    /\ last.op = "WriteConfigField" /\ last.err = "nil"
    /\ file # pre.file /\ keyring = pre.keyring
    /\ LastKey(last.field) \in DOMAIN file

\* C17: with STRIPE_API_KEY and the in-memory APIKey empty and the config
\* file readable, GetAPIKey(true) returns what the validator makes of the
\* keyring's live_mode_api_key, whatever the config file and the viper
\* instance hold; the redacted key of the config file is not returned.
C17_LiveFromKeyringOnly ==
    ReadsPersisted /\ last.livemode
       => /\ Returned(RetrieveLivemodeValue(keyring, last.p, LiveModeAPIKeyName))
          /\ last.retrieves = 1
          /\ last.err = "nil" /\ LastKey(LiveModeAPIKeyName) \in DOMAIN file
                => last.ret # file[LastKey(LiveModeAPIKeyName)]

\* C17 witness: the file holds the redacted key, the keyring the raw one,
\* and GetAPIKey(true) returned the raw one.
C17_Witness ==
    /\ ReadsPersisted /\ last.livemode
    /\ LastKey(LiveModeAPIKeyName) \in DOMAIN file
    /\ file[LastKey(LiveModeAPIKeyName)] = "sk_live_****000a"
    /\ last.ret = "sk_live_0000000a" /\ last.err = "nil"

\* A GetAPIKey(false) that got past the environment and the in-memory key.
TestModeLookup ==
    last.op = "GetAPIKey" /\ ~last.livemode /\ last.env = "" /\ last.p.APIKey = ""

CanonicalBefore == LastKey(TestModeAPIKeyName) \in DOMAIN pre.file

LegacyBefore == \E f \in {"secret_key", "api_key"} : LastKey(f) \in DOMAIN pre.file

\* C18: GetAPIKey(false) registers an alias only when test_mode_api_key is
\* not persisted and a legacy field is; otherwise it leaves the alias table
\* as it was, and with test_mode_api_key and a legacy api_key both persisted
\* it returns the value of test_mode_api_key.
C18_AliasOnlyForLegacy ==
    TestModeLookup =>
       /\ CanonicalBefore \/ ~LegacyBefore => g.aliases = pre.g.aliases
       /\ FreshBefore /\ last.io.read /\ CanonicalBefore
          /\ LastKey("api_key") \in DOMAIN pre.file
             => Returned(pre.file[LastKey(TestModeAPIKeyName)])

\* C19: a CreateProfile that returns an error leaves the config file and
\* the keyring as they were.
C19_FailureAtomic ==
    last.op = "CreateProfile" /\ last.err # "nil" => Persisted = PersistedBefore

\* The keys of a map whose value is not what map before held.
Written(m, before) == { k \in DOMAIN m : k \notin DOMAIN before \/ m[k] # before[k] }

\* C20: CreateProfile stores no empty string under any field of the config
\* file or of the keyring, also for attributes made of spaces only, and it
\* removes a legacy field only when it stored a non-empty canonical
\* test-mode value in the same call.
C20_OnlyNonEmpty ==
    last.op = "CreateProfile" =>
       /\ \A k \in Written(file, pre.file) : file[k] # ""
       /\ \A k \in Written(keyring, pre.keyring) : keyring[k] # ""
       /\ \A f \in {"secret_key", "api_key"} :
             LastKey(f) \in DOMAIN pre.file \ DOMAIN file
                => /\ LastKey(TestModeAPIKeyName) \in DOMAIN file
                   /\ file[LastKey(TestModeAPIKeyName)] # ""

====
